---- MODULE Spec2Model ----
(***************************************************************************)
(* HealthPredict (src/app.py): a Streamlit page that loads a CSV of        *)
(* patient visits, logs a patient in by id, renders the latest visit       *)
(* (health score, model risk, risk contributors, insights) and the visit   *)
(* history, and appends booked appointments to appointments.csv.           *)
(*                                                                         *)
(* Conventions of the model:                                               *)
(*  - strings the code inspects character by character (patient ids,      *)
(*    smoking status) are sequences of one-character strings;              *)
(*  - BMI is kept in tenths (18.5 is 185, 25 is 250);                       *)
(*  - probabilities are integer percentages (P(class 0) = 100 - P(class 1)).*)
(***************************************************************************)
EXTENDS Integers, Sequences, FiniteSets, TLC

VARIABLES
    df,             \* the cached DataFrame of load_data(): a sequence of rows
    model_file,     \* state of Heart_Disease_Risk_Model_XGBoost.pkl on disk
    logged_in,      \* st.session_state.logged_in
    patient_id,     \* st.session_state.patient_id
    login_error,    \* st.error shown by the last run of show_login
    typed,          \* the text of "Enter Patient ID" at the last Login press
    pc,             \* position of the current script run
    patient_df,     \* show_dashboard: row labels of the patient, sorted by Date
    latest,         \* show_dashboard: row label of patient_df.iloc[-1] (0: none)
    score_color,    \* colour of the Health Score donut
    proba,          \* predict_proba()[0][1] of the run, in percent (-1: none)
    label,          \* label of the Heart Risk donut
    risk,           \* percentage of the Heart Risk donut
    contributors,   \* whether the Top Risk Contributors pie was drawn
    insight,        \* the success/error/warning/info message of Insights
    overview_tips,  \* the bullet lines written under Insights, in order
    history_cards,  \* Visit History: the tips list of every card, in order
    exc,            \* exception that ended the script run ("none": no exception)
    appt_file,      \* appointments.csv: <<>> when absent, else its lines
    appt_pc,        \* per session: position inside save_appointment
    appt_rec,       \* per session: the record of the running call
    appt_done       \* the records of all completed save_appointment calls

vars == <<df, model_file, logged_in, patient_id, login_error, typed, pc,
          patient_df, latest, score_color, proba, label, risk, contributors, insight,
          overview_tips, history_cards, exc,
          appt_file, appt_pc, appt_rec, appt_done>>

dashVars == <<patient_df, latest, score_color, proba, label, risk, contributors,
              insight, overview_tips, history_cards, exc>>
apptVars == <<appt_file, appt_pc, appt_rec, appt_done>>

----------------------------------------------------------------------------
(* Bounds of the model *)

MaxRows  == 2      \* rows of a multi-row dataset
MaxDate  == 2      \* parseable dates are the days 1..MaxDate
MaxIdLen == 2      \* length of the text typed into "Enter Patient ID"
NSess    == 2      \* sessions booking appointments concurrently
MaxCalls == 3      \* save_appointment calls started in one behaviour

----------------------------------------------------------------------------
(* Strings *)

DigitChar == <<"0", "1", "2", "3", "4", "5", "6", "7", "8", "9">>

RECURSIVE IntToStr(_)
\* str() of a non-negative int: its decimal digits
IntToStr(n) ==
    IF n < 10 THEN <<DigitChar[n + 1]>>
    ELSE IntToStr(n \div 10) \o <<DigitChar[(n % 10) + 1]>>

\* a cell of the "patient" column: an int64, or a str of an object column
IntCell(n) == [t |-> "int", n |-> n, s |-> <<>>]
StrCell(s) == [t |-> "str", n |-> 0, s |-> s]

\* df["patient"].astype(str), one cell
AsTypeStr(cell) == IF cell.t = "int" THEN IntToStr(cell.n) ELSE cell.s

UpperToLower ==
    ("C" :> "c") @@ ("N" :> "n") @@ ("F" :> "f") @@ ("S" :> "s")

\* str.lower()
Lower(s) ==
    [i \in 1..Len(s) |->
        IF s[i] \in DOMAIN UpperToLower THEN UpperToLower[s[i]] ELSE s[i]]

\* needle in hay, for str
Contains(needle, hay) ==
    \E i \in 1..(Len(hay) - Len(needle) + 1) :
        SubSeq(hay, i, i + Len(needle) - 1) = needle

CurrentWord == <<"c", "u", "r", "r", "e", "n", "t">>

\* "current" in str(row["Smoking_Status"]).lower()
IsCurrentSmoker(status) == Contains(CurrentWord, Lower(status))

SeqsUpTo(S, n) == UNION {[1..k -> S] : k \in 0..n}

----------------------------------------------------------------------------
(* The dataset *)

NaT == 0                 \* pandas' null timestamp
Unparseable == 0 - 1     \* a Date cell of the CSV that is not a date

\* pd.to_datetime(..., errors="coerce"), one cell
ToDatetimeCoerce(raw) == IF raw \in 1..MaxDate THEN raw ELSE NaT

\* load_data: read the CSV and coerce its Date column
load_data(csv) ==
    [i \in 1..Len(csv) |-> [csv[i] EXCEPT !.Date = ToDatetimeCoerce(@)]]

StatusNever   == <<"N", "e", "v", "e", "r">>
StatusFormer  == <<"F", "o", "r", "m", "e", "r">>
StatusCurrent == <<"C", "u", "r", "r", "e", "n", "t", " ",
                   "s", "m", "o", "k", "e", "r">>

PatientCells == {IntCell(1), IntCell(10), StrCell(<<"0", "1">>)}
RawDates     == (1..MaxDate) \cup {Unparseable}
MaxScore     == 100    \* health scores are 0..MaxScore
Scores       == {0, 59, 60, 61, 79, 80, 81, MaxScore}
BMIs         == {170, 184, 185, 220, 250, 251}
HeartRates   == {90, 91}
Pressures    == {<<130, 85>>, <<131, 85>>, <<130, 86>>}
Statuses     == {StatusNever, StatusFormer, StatusCurrent}
Flags        == {0, 1}

Row(p, d, sc, bmi, hr, bp, sm, di, hy) ==
    [patient |-> p, Date |-> d, Score |-> sc, BMI |-> bmi, Heart_Rate |-> hr,
     Systolic_BP |-> bp[1], Diastolic_BP |-> bp[2], Smoking_Status |-> sm,
     Diabetes |-> di, Hyperlipidemia |-> hy]

\* every combination of vitals, for one patient on one day
AllVitalsRows ==
    {Row(IntCell(1), 1, sc, bmi, hr, bp, sm, di, hy) :
        sc \in Scores, bmi \in BMIs, hr \in HeartRates, bp \in Pressures,
        sm \in Statuses, di \in Flags, hy \in Flags}

\* every combination of patient and date for a visit that triggers no rule,
\* and every date for a visit of patient 1 that triggers all of them
HistoryRows ==
    {Row(p, d, 90, 220, 90, <<130, 85>>, StatusNever, 0, 0) :
        p \in PatientCells, d \in RawDates}
    \cup
    {Row(IntCell(1), d, 55, 260, 95, <<140, 90>>, StatusCurrent, 1, 1) :
        d \in RawDates}

\* every health score, for one profile of vitals
AllScoreRows ==
    {Row(IntCell(1), 1, sc, 220, 90, <<130, 85>>, StatusNever, 0, 0) :
        sc \in 0..MaxScore}

CsvFiles ==
    {<<r>> : r \in AllVitalsRows \cup AllScoreRows}
    \cup (SeqsUpTo(HistoryRows, MaxRows) \ {<<>>})

----------------------------------------------------------------------------
(* show_dashboard, lines 63-64: the patient's rows and the latest one *)

\* df[df["patient"].astype(str) == patient_id], as row labels
PatientRows(d, pid) == {i \in 1..Len(d) : AsTypeStr(d[i].patient) = pid}

\* the labels of S in file order
Ascending(S) ==
    CHOOSE s \in [1..Cardinality(S) -> S] :
        \A i, j \in 1..Cardinality(S) : i < j => s[i] < s[j]

\* argsort(kind="quicksort") of the non-null dates: some ordering that is
\* ascending by Date; the order of equal dates is not specified
DateSorted(d, S) ==
    {s \in [1..Cardinality(S) -> S] :
        /\ \A i, j \in 1..Cardinality(S) : i # j => s[i] # s[j]
        /\ \A i, j \in 1..Cardinality(S) : i < j => d[s[i]].Date <= d[s[j]].Date}

\* sort_values("Date"): the non-null dates sorted, then the null dates
\* (na_position="last") in file order
sort_values(d, S) ==
    LET nulls  == {i \in S : d[i].Date = NaT}
    IN  {s \o Ascending(nulls) : s \in DateSorted(d, S \ nulls)}

\* the typed text compared as a number with the int cells
IsKnownPatientByNumber(d, pid) ==
    \E i \in 1..Len(d) :
        \/ AsTypeStr(d[i].patient) = pid
        \/ /\ d[i].patient.t = "int"
           /\ pid # <<>>
           /\ \E k \in 0..Len(pid) :
                 pid = [j \in 1..k |-> "0"] \o IntToStr(d[i].patient.n)

\* patient_id in df["patient"].astype(str).values
IsKnownPatient(d, pid) == \E i \in 1..Len(d) : AsTypeStr(d[i].patient) = pid

----------------------------------------------------------------------------
(* show_dashboard: what is computed from the latest visit *)

ScoreLow  == 80     \* score >= 80: green
ScoreMid  == 60     \* score >= 60: amber
BmiLow    == 185    \* 18.5
BmiHigh   == 250    \* 25
HrHigh    == 90
SysHigh   == 130
DiaHigh   == 85

Green == "#4caf50"
Amber == "#ffa94d"
Red   == "#ff4d4d"

\* the cut-offs taken as strict
ScoreColorStrict(score) ==
    IF score > ScoreLow THEN Green
    ELSE IF score > ScoreMid THEN Amber
    ELSE Red

\* line 145: colour of the Health Score donut
ScoreColor(score) ==
    IF score >= ScoreLow THEN Green
    ELSE IF score >= ScoreMid THEN Amber
    ELSE Red

Probs == {30, 50, 51, 100}

\* what the loaded pipeline answers for one input row: predict_proba()[0][1]
\* as a percentage, and predict()[0] (class 1 iff its probability exceeds
\* one half); or the call raises
ModelOutputs ==
    {[raises |-> FALSE, p1 |-> p, pred |-> IF p > 50 THEN 1 ELSE 0] :
        p \in Probs}
    \cup {[raises |-> TRUE, p1 |-> 0, pred |-> 0]}

\* the probability of the predicted class instead of that of class 1
RiskPctOfPredicted(p1, pred) == IF pred = 1 THEN p1 ELSE 100 - p1

\* line 156: risk = model.predict_proba(input_df)[0][1] * 100
RiskPct(p1, pred) == p1

\* line 157
RiskLabel(pred) == IF pred = 1 THEN "High Risk" ELSE "Low Risk"

MsgAligned  == "Health score and risk are aligned. Keep up the good habits!"
MsgUrgent   == "Low score & high risk. Consult a physician ASAP."
MsgHighHigh == "High score but elevated risk. Schedule a full check-up."
MsgLowLow   == "Low score but currently low risk. Improve your lifestyle."

\* lines 197-204: the message of Insights & Recommendations
InsightMessage(score, lab) ==
    IF score >= ScoreLow /\ lab = "Low Risk" THEN MsgAligned
    ELSE IF score < ScoreMid /\ lab = "High Risk" THEN MsgUrgent
    ELSE IF score >= ScoreLow /\ lab = "High Risk" THEN MsgHighHigh
    ELSE MsgLowLow

\* a bullet is written when its condition holds
When(cond, tip) == IF cond THEN <<tip>> ELSE <<>>

HighBP(row) == row.Systolic_BP > SysHigh \/ row.Diastolic_BP > DiaHigh

\* lines 205-216: the bullets of the Overview, in the order they are written
OverviewTips(row) ==
       When(row.BMI > BmiHigh, "High BMI - focus on diet and exercise.")
    \o When(row.Heart_Rate > HrHigh, "Elevated heart rate - reduce stress.")
    \o When(HighBP(row), "High BP - reduce salt and monitor.")
    \o When(IsCurrentSmoker(row.Smoking_Status),
            "Smoking - quit to reduce heart risk.")
    \o When(row.Diabetes # 0, "Diabetes - monitor sugar, follow meds.")
    \o When(row.Hyperlipidemia # 0, "Hyperlipidemia - adopt a low-fat diet.")

\* lines 229-241: the tips of one Visit History card
CardTips(row) ==
       When(row.BMI < BmiLow \/ row.BMI > BmiHigh, "Maintain healthy BMI.")
    \o When(row.Heart_Rate > HrHigh, "Reduce resting heart rate.")
    \o When(HighBP(row), "Manage blood pressure.")
    \o When(IsCurrentSmoker(row.Smoking_Status), "Stop smoking.")
    \o When(row.Hyperlipidemia # 0, "Monitor cholesterol.")
    \o When(row.Diabetes # 0, "Track glucose levels.")

----------------------------------------------------------------------------
(* The session and the script runs of one browser session *)

IdChars  == {"0", "1"}
IdInputs == SeqsUpTo(IdChars, MaxIdLen)

NoOutput ==
    /\ patient_df = <<>>
    /\ latest = 0
    /\ score_color = ""
    /\ proba = 0 - 1
    /\ label = ""
    /\ risk = 0 - 1
    /\ contributors = FALSE
    /\ insight = ""
    /\ overview_tips = <<>>
    /\ history_cards = <<>>
    /\ exc = "none"

\* a new script run starts with nothing rendered
ClearOutput ==
    /\ patient_df' = <<>>
    /\ latest' = 0
    /\ score_color' = ""
    /\ proba' = 0 - 1
    /\ label' = ""
    /\ risk' = 0 - 1
    /\ contributors' = FALSE
    /\ insight' = ""
    /\ overview_tips' = <<>>
    /\ history_cards' = <<>>
    /\ exc' = "none"

\* lines 36-41: the one-row frame of a call
Record(pid, doctor, day, notes) ==
    [Patient_ID |-> pid, Doctor |-> doctor, Date |-> day, Notes |-> notes]

NoAppointments ==
    /\ appt_file = [exists |-> FALSE, lines |-> <<>>]
    /\ appt_pc = [s \in 1..NSess |-> "idle"]
    /\ appt_rec = [s \in 1..NSess |-> Record(<<>>, "", 0, "")]
    /\ appt_done = <<>>

\* lines 18 and 47-49, and the first run of the script (show_login)
Init ==
    /\ df \in {load_data(csv) : csv \in CsvFiles}
    /\ model_file \in {"present", "absent"}
    /\ logged_in = FALSE
    /\ patient_id = <<>>
    /\ login_error = FALSE
    /\ typed = <<>>
    /\ pc = "login"
    /\ NoOutput
    /\ NoAppointments

\* show_login, lines 53-60: the Login button is pressed with text id
Login(id) ==
    /\ pc = "login"
    /\ ~logged_in
    /\ typed' = id
    /\ IF IsKnownPatient(df, id)
       THEN /\ logged_in' = TRUE
            /\ patient_id' = id
            /\ login_error' = FALSE
            /\ pc' = "dashboard"          \* st.rerun(), line 259
       ELSE /\ login_error' = TRUE
            /\ UNCHANGED <<logged_in, patient_id, pc>>
    /\ UNCHANGED <<df, model_file>>
    /\ UNCHANGED dashVars
    /\ UNCHANGED apptVars

\* show_dashboard, lines 63-64
SelectLatest ==
    /\ pc = "dashboard"
    /\ logged_in
    /\ \E s \in sort_values(df, PatientRows(df, patient_id)) :
          IF s = <<>>
          THEN /\ exc' = "IndexError"          \* iloc[-1] of no rows
               /\ pc' = "crashed"
               /\ UNCHANGED <<patient_df, latest>>
          ELSE /\ patient_df' = s
               /\ latest' = s[Len(s)]
               /\ pc' = "col1"
               /\ UNCHANGED exc
    /\ UNCHANGED <<df, model_file, logged_in, patient_id, login_error, typed>>
    /\ UNCHANGED <<score_color, proba, label, risk, contributors, insight,
                   overview_tips, history_cards>>
    /\ UNCHANGED apptVars

\* lines 141-147: the Health Score card
RenderScore ==
    /\ pc = "col1"
    /\ score_color' = ScoreColor(df[latest].Score)
    /\ pc' = "col2"
    /\ UNCHANGED <<df, model_file, logged_in, patient_id, login_error, typed>>
    /\ UNCHANGED <<patient_df, latest, proba, label, risk, contributors,
                   insight, overview_tips, history_cards, exc>>
    /\ UNCHANGED apptVars

\* lines 149-160: the Heart Risk card; joblib.load and the model's calls
\* are not guarded, so what they raise ends the script run
RenderRisk ==
    /\ pc = "col2"
    /\ IF model_file = "absent"
       THEN /\ exc' = "FileNotFoundError"
            /\ pc' = "crashed"
            /\ UNCHANGED <<proba, label, risk>>
       ELSE \E out \in ModelOutputs :
              IF out.raises
              THEN /\ exc' = "InferenceError"
                   /\ pc' = "crashed"
                   /\ UNCHANGED <<proba, label, risk>>
              ELSE /\ proba' = out.p1
                   /\ risk' = RiskPct(out.p1, out.pred)
                   /\ label' = RiskLabel(out.pred)
                   /\ pc' = "col3"
                   /\ UNCHANGED exc
    /\ UNCHANGED <<df, model_file, logged_in, patient_id, login_error, typed>>
    /\ UNCHANGED <<patient_df, latest, score_color, contributors, insight,
                   overview_tips, history_cards>>
    /\ UNCHANGED apptVars

\* lines 162-192: the Top Risk Contributors card
RenderContributors ==
    /\ pc = "col3"
    /\ contributors' = TRUE
    /\ pc' = "insights"
    /\ UNCHANGED <<df, model_file, logged_in, patient_id, login_error, typed>>
    /\ UNCHANGED <<patient_df, latest, score_color, proba, label, risk,
                   insight, overview_tips, history_cards, exc>>
    /\ UNCHANGED apptVars

\* lines 195-217: Insights & Recommendations
RenderInsights ==
    /\ pc = "insights"
    /\ insight' = InsightMessage(df[latest].Score, label)
    /\ overview_tips' = OverviewTips(df[latest])
    /\ pc' = "history"
    /\ UNCHANGED <<df, model_file, logged_in, patient_id, login_error, typed>>
    /\ UNCHANGED <<patient_df, latest, score_color, proba, label, risk,
                   contributors, history_cards, exc>>
    /\ UNCHANGED apptVars

\* lines 220-251: the Visit History tab, one card per row of patient_df
RenderHistory ==
    /\ pc = "history"
    /\ history_cards' =
          [i \in 1..Len(patient_df) |-> CardTips(df[patient_df[i]])]
    /\ pc' = "logout"
    /\ UNCHANGED <<df, model_file, logged_in, patient_id, login_error, typed>>
    /\ UNCHANGED <<patient_df, latest, score_color, proba, label, risk,
                   contributors, insight, overview_tips, exc>>
    /\ UNCHANGED apptVars

\* lines 253-256: the Logout button, drawn when the run got to line 253
Logout ==
    /\ pc = "logout"
    /\ logged_in' = FALSE
    /\ patient_id' = <<>>
    /\ login_error' = FALSE
    /\ typed' = <<>>                       \* the text box is created anew
    /\ pc' = "login"                       \* st.rerun(), line 261
    /\ ClearOutput
    /\ UNCHANGED <<df, model_file>>
    /\ UNCHANGED apptVars

\* a widget of the dashboard is changed, or the page is run again after an
\* exception: the script reruns with the same session state
Rerun ==
    /\ pc \in {"logout", "crashed"}
    /\ logged_in
    /\ pc' = "dashboard"
    /\ ClearOutput
    /\ UNCHANGED <<df, model_file, logged_in, patient_id, login_error, typed>>
    /\ UNCHANGED apptVars

Next ==
    \/ \E id \in IdInputs : Login(id)
    \/ SelectLatest
    \/ RenderScore
    \/ RenderRisk
    \/ RenderContributors
    \/ RenderInsights
    \/ RenderHistory
    \/ Logout
    \/ Rerun

Spec == Init /\ [][Next]_vars

----------------------------------------------------------------------------
(* save_appointment, called by sessions that run at the same time *)

Doctors == {"Cardiologist", "General Physician", "Dietician"}

\* the patient each booking session is logged in as
SessPatient(s) == IntToStr(s)

HeaderLine == [kind |-> "header", rec |-> Record(<<>>, "", 0, "")]
RecordLine(r) == [kind |-> "record", rec |-> r]

\* calls started so far
Started ==
    Len(appt_done) + Cardinality({s \in 1..NSess : appt_pc[s] # "idle"})

InitAppt ==
    /\ df = load_data(<<Row(IntCell(1), 1, 90, 220, 90, <<130, 85>>,
                            StatusNever, 0, 0)>>)
    /\ model_file = "present"
    /\ logged_in = FALSE
    /\ patient_id = <<>>
    /\ login_error = FALSE
    /\ typed = <<>>
    /\ pc = "login"
    /\ NoOutput
    /\ NoAppointments

\* lines 36-42: the record is built and os.path.exists is evaluated
TestExists(s, doctor) ==
    /\ appt_pc[s] = "idle"
    /\ Started < MaxCalls
    /\ appt_rec' = [appt_rec EXCEPT ![s] = Record(SessPatient(s), doctor, 1, "")]
    /\ appt_pc' = [appt_pc EXCEPT
                      ![s] = IF appt_file.exists THEN "append" ELSE "create"]
    /\ UNCHANGED <<appt_file, appt_done>>
    /\ UNCHANGED <<df, model_file, logged_in, patient_id, login_error, typed, pc>>
    /\ UNCHANGED dashVars

\* line 43 (mode 'a', no header) or line 45 (mode 'w', with header)
WriteRecord(s) ==
    /\ appt_pc[s] \in {"append", "create"}
    /\ appt_file' =
          IF appt_pc[s] = "append"
          THEN [exists |-> TRUE,
                lines |-> Append(appt_file.lines, RecordLine(appt_rec[s]))]
          ELSE [exists |-> TRUE,
                lines |-> <<HeaderLine, RecordLine(appt_rec[s])>>]
    /\ appt_done' = Append(appt_done, appt_rec[s])
    /\ appt_pc' = [appt_pc EXCEPT ![s] = "idle"]
    /\ UNCHANGED appt_rec
    /\ UNCHANGED <<df, model_file, logged_in, patient_id, login_error, typed, pc>>
    /\ UNCHANGED dashVars

NextAppt ==
    \/ \E s \in 1..NSess : \E doctor \in Doctors : TestExists(s, doctor)
    \/ \E s \in 1..NSess : WriteRecord(s)

SpecAppt == InitAppt /\ [][NextAppt]_vars

----------------------------------------------------------------------------
(* Vocabulary of the properties *)

\* the rule a written tip belongs to
RuleOf ==
       ("High BMI - focus on diet and exercise."  :> "bmi")
    @@ ("Elevated heart rate - reduce stress."    :> "hr")
    @@ ("High BP - reduce salt and monitor."      :> "bp")
    @@ ("Smoking - quit to reduce heart risk."    :> "smoking")
    @@ ("Diabetes - monitor sugar, follow meds."  :> "diabetes")
    @@ ("Hyperlipidemia - adopt a low-fat diet."  :> "hyperlipidemia")
    @@ ("Maintain healthy BMI."                   :> "bmi")
    @@ ("Reduce resting heart rate."              :> "hr")
    @@ ("Manage blood pressure."                  :> "bp")
    @@ ("Stop smoking."                           :> "smoking")
    @@ ("Monitor cholesterol."                    :> "hyperlipidemia")
    @@ ("Track glucose levels."                   :> "diabetes")
    @@ ("No immediate action needed."             :> "none")

\* the evaluation order of the rules
RuleRank ==
       ("bmi" :> 1) @@ ("hr" :> 2) @@ ("bp" :> 3) @@ ("smoking" :> 4)
    @@ ("hyperlipidemia" :> 5) @@ ("diabetes" :> 6) @@ ("none" :> 7)

HasRule(tips, rule) == \E k \in 1..Len(tips) : RuleOf[tips[k]] = rule

InRuleOrder(tips) ==
    \A j, k \in 1..Len(tips) :
        j < k => RuleRank[RuleOf[tips[j]]] < RuleRank[RuleOf[tips[k]]]

\* none of the six rules triggers for the row
NothingTriggers(row) ==
    /\ row.BMI >= 185 /\ row.BMI <= 250
    /\ row.Heart_Rate <= 90
    /\ row.Systolic_BP <= 130 /\ row.Diastolic_BP <= 85
    /\ ~Contains(CurrentWord, Lower(row.Smoking_Status))
    /\ row.Hyperlipidemia = 0
    /\ row.Diabetes = 0

InsightsDone == pc \in {"history", "logout"}
HistoryDone  == pc = "logout"

----------------------------------------------------------------------------
(* C1: once the Health Score card is drawn, its colour is green for a score
   of 80 or more, amber for a score from 60 up to but not including 80, and
   red for a score below 60; exactly one of the three cases applies. *)
C1_ScoreBanding ==
    score_color # "" =>
        LET sc == df[latest].Score
        IN  /\ sc >= 80 <=> score_color = "#4caf50"
            /\ (sc >= 60 /\ sc < 80) <=> score_color = "#ffa94d"
            /\ sc < 60 <=> score_color = "#ff4d4d"
            /\ score_color \in {"#4caf50", "#ffa94d", "#ff4d4d"}

C1_Witness ==
    /\ pc = "col2"
    /\ df[latest].Score = 60
    /\ score_color = "#ffa94d"

(* C2: the BMI tip is written in the Overview, and on each Visit History
   card, exactly when the visit's BMI is below 18.5 or above 25. *)
C2_BmiTipIff ==
    /\ InsightsDone =>
          (HasRule(overview_tips, "bmi")
              <=> (df[latest].BMI < 185 \/ df[latest].BMI > 250))
    /\ HistoryDone =>
          \A i \in 1..Len(history_cards) :
              HasRule(history_cards[i], "bmi")
                  <=> (df[patient_df[i]].BMI < 185 \/ df[patient_df[i]].BMI > 250)

(* C3: each of the four consistency messages is shown only for its own
   combination of score band and label, and for a score from 60 up to but
   not including 80 none of the four messages is shown. *)
C3_ConsistencyTable ==
    InsightsDone =>
        LET sc == df[latest].Score
        IN  /\ insight = MsgAligned  => (sc >= 80 /\ label = "Low Risk")
            /\ insight = MsgUrgent   => (sc < 60 /\ label = "High Risk")
            /\ insight = MsgHighHigh => (sc >= 80 /\ label = "High Risk")
            /\ insight = MsgLowLow   => (sc < 60 /\ label = "Low Risk")
            /\ (sc >= 60 /\ sc < 80) =>
                   insight \notin {MsgAligned, MsgUrgent, MsgHighHigh, MsgLowLow}

(* C4: the tips of the Overview, and of every Visit History card, appear in
   the order BMI, heart rate, blood pressure, smoking, hyperlipidemia,
   diabetes. *)
C4_TipOrder ==
    /\ InsightsDone => InRuleOrder(overview_tips)
    /\ HistoryDone =>
          \A i \in 1..Len(history_cards) : InRuleOrder(history_cards[i])

(* C5: a visit for which none of the six rules triggers gets exactly the one
   tip "no immediate action needed"; no rendered tip list is empty. *)
C5_NoActionTip ==
    /\ InsightsDone =>
          /\ overview_tips # <<>>
          /\ NothingTriggers(df[latest]) =>
                overview_tips = <<"No immediate action needed.">>
    /\ HistoryDone =>
          \A i \in 1..Len(history_cards) :
              /\ history_cards[i] # <<>>
              /\ NothingTriggers(df[patient_df[i]]) =>
                    history_cards[i] = <<"No immediate action needed.">>

(* C6: when the model artifact is absent, or loading or inference raises, no
   exception ends the run of the dashboard: the run reaches its end with the
   score colour and the tips drawn, the label reported as Unavailable, and
   the Visit History produced. *)
C6_ModelFailureDegrades ==
    /\ exc \notin {"FileNotFoundError", "InferenceError"}
    /\ pc # "crashed"
    /\ (model_file = "absent" /\ HistoryDone) =>
          /\ score_color # ""
          /\ label = "Unavailable"
          /\ Len(history_cards) = Len(patient_df)

(* C7: the session is logged in only with a patient_id equal to the string
   form of the patient cell of some row, so the dashboard never looks up the
   latest visit of no rows; a Login press whose text matches no row changes
   neither logged_in nor patient_id and shows the error, one whose text
   matches logs that id in; a logout leaves logged_in false and patient_id
   empty, and while logged out only the login view is shown. *)
C7_SessionState ==
    /\ logged_in => \E i \in 1..Len(df) : AsTypeStr(df[i].patient) = patient_id
    /\ ~logged_in => (patient_id = <<>> /\ pc = "login")
    /\ pc = "login" => ~logged_in
    /\ exc # "IndexError"
    /\ latest # 0 => AsTypeStr(df[latest].patient) = patient_id

C7_LoginStep ==
    pc = "login" =>
        IF \E i \in 1..Len(df) : AsTypeStr(df[i].patient) = typed'
        THEN logged_in' /\ patient_id' = typed' /\ pc' = "dashboard"
        ELSE /\ logged_in' = logged_in
             /\ patient_id' = patient_id
             /\ login_error'
             /\ pc' = "login"

C7_LogoutStep ==
    (logged_in /\ ~logged_in') => (patient_id' = <<>> /\ pc' = "login")

(* C7: in every reachable state the session state is as described, and every
   step of a login attempt or a logout changes it as described. *)
C7_Session ==
    /\ []C7_SessionState
    /\ [][C7_LoginStep /\ C7_LogoutStep]_vars

\* logged in as "10" after an attempt: the whole dashboard was drawn
C7_Witness ==
    /\ logged_in
    /\ patient_id = <<"1", "0">>
    /\ Len(df) = 2
    /\ df[1].patient # df[2].patient
    /\ pc = "logout"

(* C8: the visit taken as the latest has a date, no visit of the patient has
   a later date, and of the visits on that latest date it is the last one in
   file order. *)
C8_LatestIsLast ==
    latest # 0 =>
        \A i \in PatientRows(df, patient_id) :
            /\ df[i].Date # NaT =>
                  (df[latest].Date # NaT /\ df[i].Date <= df[latest].Date)
            /\ df[i].Date = df[latest].Date => i <= latest

(* C9 as stated: the percentage of the Heart Risk donut is the probability of
   the predicted class, 100 * P(class 1) under High Risk and 100 * P(class 0)
   under Low Risk, and so is never below 50. *)
C9_ConfidenceOfPredicted ==
    label # "" =>
        /\ label = "High Risk" => risk = proba
        /\ label = "Low Risk" => risk = 100 - proba
        /\ risk >= 50

(* C9 amended: the percentage of the Heart Risk donut is 100 * P(class 1)
   whichever label is shown: above 50 under High Risk, at most 50 under
   Low Risk. *)
C9_RiskIsClassOne ==
    label # "" =>
        /\ risk = proba
        /\ label = "High Risk" => risk > 50
        /\ label = "Low Risk" => risk <= 50

C9_Witness ==
    /\ label = "Low Risk"
    /\ proba = 30
    /\ risk = 30

\* how often record r is a line of the file or an entry of a sequence
CountLines(r) ==
    Cardinality({k \in 1..Len(appt_file.lines) :
                    appt_file.lines[k] = RecordLine(r)})
CountDone(r) ==
    Cardinality({k \in 1..Len(appt_done) : appt_done[k] = r})

(* C10: whatever the interleaving of the calls, the log holds one record for
   every completed save_appointment call, and its header is written at most
   once, as the first line. *)
C10_AppendOnly ==
    /\ \A k \in 1..Len(appt_done) :
          CountLines(appt_done[k]) = CountDone(appt_done[k])
    /\ \A k \in 1..Len(appt_file.lines) :
          appt_file.lines[k] = HeaderLine => k = 1

====
